---- MODULE Spec2Model ----
(***************************************************************************)
(* A model of public-key-cryptosystem.py: fast modular exponentiation,     *)
(* the Miller-Rabin test, safe-prime key generation, and the block-wise    *)
(* ElGamal encryption and decryption over text files.                      *)
(*                                                                         *)
(* Python integers are unbounded; TLC's are 32-bit.  Two places of the     *)
(* program work on values near 2^32 and are modelled at a width TLC can    *)
(* hold:                                                                   *)
(*   - keygen draws 32-bit candidates (randbits(32) | 2^31 + 1); the model *)
(*     draws KeyBits-bit candidates (randbits(KeyBits) | 2^(KeyBits-1)+1). *)
(*   - encrypt/decrypt run under a key whose prime exceeds every 4-byte    *)
(*     block; the model runs them under the prime StreamP = 2^30 - 35 and  *)
(*     an alphabet of characters below 64, so that every block of the      *)
(*     model is below StreamP as every 32-bit block is below a keygen      *)
(*     prime.  Products modulo such a prime are formed by doubling         *)
(*     (MulMod) so that no intermediate value leaves TLC's integers.       *)
(***************************************************************************)
EXTENDS Integers, Sequences, FiniteSets, TLC

VARIABLES
    pc,         \* position of the running operation
    exc,        \* exception raised by the running operation ("none" if none)
    \* fast_exponent_mod called on its own
    base, exponent, modulus, result,
    \* miller_rabin
    n, s, t, u, i, a, ret, caller,
    \* keygen
    q, p, g, d, e2, pubkey, prikey, keys,
    \* one block through encrypt and decrypt
    k, m, c1, c2, out,
    \* the files of encrypt and decrypt
    text, tpos, eof, ctext, cpos, dtext

modexpVars == <<base, exponent, modulus, result>>
mrVars     == <<n, s, t, u, i, a, ret, caller>>
keyVars    == <<q, p, g, d, e2, pubkey, prikey, keys>>
blockVars  == <<k, m, c1, c2, out>>
fileVars   == <<text, tpos, eof, ctext, cpos, dtext>>
vars == <<pc, exc, modexpVars, mrVars, keyVars, blockVars, fileVars>>

(***************************************************************************)
(* Bounds of the model.                                                    *)
(***************************************************************************)
MaxBase == 6        \* fast_exponent_mod: base in 0..MaxBase
MaxExp  == 9        \* fast_exponent_mod: exponent in -MinNeg..MaxExp
MaxMod  == 7        \* fast_exponent_mod: modulus in -MinNeg..MaxMod
MinNeg  == 2        \* how far below zero exponent and modulus are drawn
MaxN    == 30       \* miller_rabin: n in 0..MaxN
MaxRounds == 2      \* miller_rabin: s in 1..MaxRounds
MaxT    == 8        \* cap on the factoring loop's counter t
MaxP    == 13       \* block round trip: primes p <= MaxP, all d, k, m
KeyBits == 5        \* width of keygen's candidates (32 in the source)
MaxLen  == 5        \* longest message file, in characters

(***************************************************************************)
(* Python's integer operators.                                             *)
(***************************************************************************)
\* a % m for m # 0: the result has the sign of m
PyMod(x, y) == IF y > 0 THEN x % y ELSE -((-x) % (-y))

RECURSIVE Pow2(_)
Pow2(e) == IF e = 0 THEN 1 ELSE 2 * Pow2(e - 1)

\* x | y, x ^ y and x & y on non-negative integers
RECURSIVE BitOr(_, _)
BitOr(x, y) ==
    IF x = 0 THEN y
    ELSE IF y = 0 THEN x
    ELSE 2 * BitOr(x \div 2, y \div 2) + (IF x % 2 = 1 \/ y % 2 = 1 THEN 1 ELSE 0)

RECURSIVE BitXor(_, _)
BitXor(x, y) ==
    IF x = 0 THEN y
    ELSE IF y = 0 THEN x
    ELSE 2 * BitXor(x \div 2, y \div 2) + (IF x % 2 # y % 2 THEN 1 ELSE 0)

RECURSIVE BitAnd(_, _)
BitAnd(x, y) ==
    IF x = 0 \/ y = 0 THEN 0
    ELSE 2 * BitAnd(x \div 2, y \div 2) + (IF x % 2 = 1 /\ y % 2 = 1 THEN 1 ELSE 0)

\* (x * y) % modulus.  Where the product fits TLC's integers it is formed
\* and reduced as Python does; otherwise (0 <= x < modulus, 0 <= y and
\* 0 < modulus < 2^30) the same residue is built from doublings and
\* additions, three bits of y at a time.
Dbl(x, md) == (2 * x) % md

AddMod(x, y, md) == (x + y) % md

\* (x * c) % md for c in 0..7
TimesDigit(x, c, md) ==
    AddMod(AddMod(IF c >= 4 THEN Dbl(Dbl(x, md), md) ELSE 0,
                  IF (c \div 2) % 2 = 1 THEN Dbl(x, md) ELSE 0, md),
           IF c % 2 = 1 THEN x ELSE 0, md)

RECURSIVE DoubleAdd(_, _, _)
DoubleAdd(x, y, md) ==
    IF y = 0 THEN 0
    ELSE LET h == DoubleAdd(x, y \div 8, md)
         IN  AddMod(Dbl(Dbl(Dbl(h, md), md), md), TimesDigit(x, y % 8, md), md)

Fits(x) == -46340 <= x /\ x <= 46340

MulMod(x, y, md) ==
    IF Fits(x) /\ Fits(y) THEN PyMod(x * y, md)
    ELSE DoubleAdd(x % md, y, md)

\* format(exponent, 'b'): the binary digits, most significant first, after a
\* '-' for a negative exponent
RECURSIVE Digits2(_)
Digits2(e) == IF e < 2 THEN <<IF e = 1 THEN "1" ELSE "0">>
              ELSE Append(Digits2(e \div 2), IF e % 2 = 1 THEN "1" ELSE "0")

format_b(e) == IF e < 0 THEN <<"-">> \o Digits2(-e) ELSE Digits2(e)

(***************************************************************************)
(* fast_exponent_mod, for modulus # 0 (modulus = 0 raises                  *)
(* ZeroDivisionError at the first reduction, see ModExpCall).  The counter *)
(* c of the source is never read and is left out.                          *)
(***************************************************************************)
\* FemStep multiplying before it squares
FemStepMultiplyFirst(bit, acc, b, md) ==
    LET ml == IF bit = "1" THEN MulMod(acc, b, md) ELSE acc
    IN  MulMod(ml, ml, md)

\* one iteration of  for bit in binary_exp  on the running value acc
FemStep(bit, acc, b, md) ==
    LET sq == MulMod(acc, acc, md)
    IN  IF bit = "1" THEN MulMod(sq, b, md) ELSE sq

\* the loop from its j-th iteration on, acc being the running value.  The
\* membership test has TLC compute each iteration's value before the next
\* iteration starts.
RECURSIVE FemLoop(_, _, _, _, _)
FemLoop(binary_exp, j, acc, b, md) ==
    IF j > Len(binary_exp) THEN acc
    ELSE LET nx == FemStep(binary_exp[j], acc, b, md)
         IN  IF nx \in Int THEN FemLoop(binary_exp, j + 1, nx, b, md) ELSE nx

fast_exponent_mod(b, e, md) == FemLoop(format_b(e), 1, 1, b, md)

(***************************************************************************)
(* References the program is compared with.                                *)
(***************************************************************************)
\* b^e mod modulus from multiplications by b alone (e >= 0, modulus >= 1):
\* b^e is the product of b^(e div 2) and b^(e - e div 2)
RECURSIVE RefPowMod(_, _, _)
RefPowMod(b, e, md) ==
    IF e = 0 THEN 1 % md
    ELSE IF e = 1 THEN b % md
    ELSE (RefPowMod(b, e \div 2, md) * RefPowMod(b, e - (e \div 2), md)) % md

\* trial division
IsPrime(x) == x >= 2 /\ \A f \in 2..(x - 1) : x % f # 0

IdleModExp == base = 0 /\ exponent = 0 /\ modulus = 1 /\ result = 0
IdleMR     == n = 0 /\ s = 0 /\ t = 0 /\ u = 0 /\ i = 0 /\ a = 0
              /\ ret = "none" /\ caller = "none"
IdleKey    == q = 0 /\ p = 0 /\ g = 0 /\ d = 0 /\ e2 = 0
              /\ pubkey = <<>> /\ prikey = <<>> /\ keys = <<>>
IdleBlock  == k = 0 /\ m = 0 /\ c1 = 0 /\ c2 = 0 /\ out = 0
IdleFiles  == text = <<>> /\ tpos = 0 /\ eof = FALSE /\ ctext = <<>>
              /\ cpos = 0 /\ dtext = <<>>

(***************************************************************************)
(* fast_exponent_mod called on its own.                                    *)
(***************************************************************************)
InitModExp ==
    /\ pc = "fem_call" /\ exc = "none"
    /\ base \in 0..MaxBase
    /\ exponent \in (-MinNeg)..MaxExp
    /\ modulus \in (-MinNeg)..MaxMod
    /\ result = 0
    /\ IdleMR /\ IdleKey /\ IdleBlock /\ IdleFiles

ModExpCall ==
    /\ pc = "fem_call"
    /\ IF modulus = 0
       THEN /\ exc' = "ZeroDivisionError"
            /\ pc' = "fem_raised"
            /\ UNCHANGED result
       ELSE /\ result' = fast_exponent_mod(base, exponent, modulus)
            /\ pc' = "fem_done"
            /\ UNCHANGED exc
    /\ UNCHANGED <<base, exponent, modulus, mrVars, keyVars, blockVars, fileVars>>

NextModExp == ModExpCall

SpecModExp == InitModExp /\ [][NextModExp]_vars

\* C4: for base >= 0, exponent >= 0 and modulus >= 1 the value returned by
\* fast_exponent_mod is base^exponent mod modulus as computed by repeated
\* multiplication (1 mod modulus for exponent 0).
ModExpCorrect ==
    (pc = "fem_done" /\ exponent >= 0 /\ modulus >= 1)
        => result = RefPowMod(base, exponent, modulus)

ModExpCorrectWitness ==
    /\ pc = "fem_done" /\ exponent >= 3 /\ modulus >= 2 /\ base > modulus
    /\ result = RefPowMod(base, exponent, modulus) /\ result > 1

\* C9: a call with modulus <= 0 or with a negative exponent is rejected with
\* an error; it never returns a number.
ModExpRejectsInvalid ==
    (pc \in {"fem_done", "fem_raised"} /\ (modulus <= 0 \/ exponent < 0))
        => (pc = "fem_raised" /\ exc # "none")

(***************************************************************************)
(* miller_rabin and witness.                                               *)
(***************************************************************************)
\* u & 0b1; Python's & on a negative u works on its two's complement, whose
\* lowest bit is u mod 2
LowBit(x) == x % 2

\* the loop of witness: j squarings are left
RECURSIVE WitnessLoop(_, _, _)
WitnessLoop(x, wn, j) ==
    IF j <= 0 THEN TRUE
    ELSE LET x2 == fast_exponent_mod(x, 2, wn)
         IN  IF x2 = wn - 1 THEN FALSE ELSE WitnessLoop(x2, wn, j - 1)

\* witness without the test x == n - 1 on the first power
witnessOnlyOne(wa, wn, wt, wu) ==
    LET x == fast_exponent_mod(wa, wu, wn)
    IN  IF x = 1 THEN FALSE ELSE WitnessLoop(x, wn, wt - 1)

witness(wa, wn, wt, wu) ==
    LET x == fast_exponent_mod(wa, wu, wn)
    IN  IF x = 1 \/ x = wn - 1 THEN FALSE ELSE WitnessLoop(x, wn, wt - 1)

InitMR ==
    /\ pc = "mr_call" /\ exc = "none"
    /\ n \in 0..MaxN
    /\ s \in 1..MaxRounds
    /\ t = 0 /\ u = 0 /\ i = 0 /\ a = 0 /\ ret = "none" /\ caller = "main"
    /\ IdleModExp /\ IdleKey /\ IdleBlock /\ IdleFiles

\* MRBegin factoring n instead of n - 1
MRBeginFactorsN ==
    /\ pc = "mr_call"
    /\ u' = n
    /\ t' = 0
    /\ i' = 0
    /\ ret' = "none"
    /\ pc' = "mr_run"
    /\ UNCHANGED <<exc, n, s, a, caller, modexpVars, keyVars, blockVars, fileVars>>

\* u = n - 1; t = 0
MRBegin ==
    /\ pc = "mr_call"
    /\ u' = n - 1
    /\ t' = 0
    /\ i' = 0
    /\ ret' = "none"
    /\ pc' = "mr_run"
    /\ UNCHANGED <<exc, n, s, a, caller, modexpVars, keyVars, blockVars, fileVars>>

\* one iteration of  while (u & 0b1) != 1.  For n = 1 the loop never ends
\* (u stays 0); the model stops following it at t = MaxT.
MRFactor ==
    /\ pc = "mr_run"
    /\ LowBit(u) # 1
    /\ t < MaxT
    /\ u' = u \div 2
    /\ t' = t + 1
    /\ UNCHANGED <<pc, exc, n, s, i, a, ret, caller, modexpVars, keyVars,
                   blockVars, fileVars>>

\* one iteration of  for i in range(0, s); i counts the iterations begun.
\* random.randrange(2, n - 1) raises ValueError when the range is empty.
MRRound ==
    /\ pc = "mr_run"
    /\ LowBit(u) = 1
    /\ i < s
    /\ IF n - 1 <= 2
       THEN /\ exc' = "ValueError"
            /\ pc' = "mr_raised"
            /\ UNCHANGED <<i, a, ret>>
       ELSE \E aa \in 2..(n - 2) :
                /\ a' = aa
                /\ i' = i + 1
                /\ IF witness(aa, n, t, u)
                   THEN ret' = "False" /\ pc' = "mr_ret"
                   ELSE UNCHANGED <<ret, pc>>
                /\ UNCHANGED exc
    /\ UNCHANGED <<n, s, t, u, caller, modexpVars, keyVars, blockVars, fileVars>>

\* the for loop ran out: return True
MRReturnTrue ==
    /\ pc = "mr_run"
    /\ LowBit(u) = 1
    /\ i = s
    /\ ret' = "True"
    /\ pc' = "mr_ret"
    /\ UNCHANGED <<exc, n, s, t, u, i, a, caller, modexpVars, keyVars,
                   blockVars, fileVars>>

NextMR == MRBegin \/ MRFactor \/ MRRound \/ MRReturnTrue

SpecMR == InitMR /\ [][NextMR]_vars

\* n - 1 = 2^tt * uu with uu odd, found by search, and the strong liars of
\* Miller-Rabin computed from repeated multiplication
RefT(x) == CHOOSE tt \in 0..x : (x - 1) % Pow2(tt) = 0 /\ (x - 1) % Pow2(tt + 1) # 0
RefU(x) == (x - 1) \div Pow2(RefT(x))
RefStrongLiar(y, x) ==
    \/ RefPowMod(y, RefU(x), x) \in {1, x - 1}
    \/ \E r \in 1..(RefT(x) - 1) : RefPowMod(y, Pow2(r) * RefU(x), x) = x - 1

\* C5: for n < 4 and s >= 1, miller_rabin terminates returning False,
\* without raising an error.
MRSmallRejected ==
    (n < 4 /\ pc \in {"mr_ret", "mr_raised"}) => (pc = "mr_ret" /\ ret = "False")

\* C6 as stated: for n >= 4 and any bases drawn, miller_rabin returns True
\* if and only if n is prime by trial division.
MRAgreesWithOracle ==
    (pc = "mr_ret" /\ n >= 4) => (ret = "True" <=> IsPrime(n))

\* C6 amended: for n >= 4 no prime is reported composite, whatever bases are
\* drawn, and a composite is reported prime only when every base drawn is a
\* strong liar for it; a verdict of composite comes from a base that is not.
MRAgreesUpToLiars ==
    /\ (pc = "mr_ret" /\ n >= 4 /\ IsPrime(n)) => ret = "True"
    /\ (pc = "mr_run" /\ n >= 4 /\ i > 0) => RefStrongLiar(a, n)
    /\ (pc = "mr_ret" /\ n >= 4 /\ ret = "True") => RefStrongLiar(a, n)
    /\ (pc = "mr_ret" /\ n >= 4 /\ ret = "False") => ~RefStrongLiar(a, n)

MRLiarWitness ==
    pc = "mr_ret" /\ n >= 4 /\ ~IsPrime(n) /\ ret = "True" /\ i = s /\ s >= 2

\* C7: a verdict of composite is certain for n >= 5; for a prime n >= 5 and
\* the t, u of the factoring loop, witness(a, n, t, u) is False for every
\* base a in [2, n-2].
MRCompositeCertain ==
    /\ (pc = "mr_ret" /\ n >= 5 /\ ret = "False") => ~IsPrime(n)
    /\ (pc = "mr_run" /\ LowBit(u) = 1 /\ n >= 5 /\ IsPrime(n))
          => /\ Pow2(t) * u = n - 1
             /\ \A aa \in 2..(n - 2) : ~witness(aa, n, t, u)

MRCompositeCertainWitness ==
    pc = "mr_ret" /\ n >= 5 /\ IsPrime(n) /\ ret = "True" /\ t >= 2 /\ i = s

(***************************************************************************)
(* Text files.  A character is represented by its code point, so ord and   *)
(* chr are the identity on 0..255; a file is the sequence of its           *)
(* characters.                                                             *)
(***************************************************************************)
Space == 32         \* ord(' ')
Zero  == 48         \* ord('0')

\* str(x) of an integer x >= 0
RECURSIVE Digits10(_)
Digits10(x) == IF x < 10 THEN <<Zero + x>>
               ELSE Append(Digits10(x \div 10), Zero + (x % 10))

str(x) == Digits10(x)

\* int(w) of a string of decimal digits
RECURSIVE int(_)
int(w) == IF Len(w) = 0 THEN 0
          ELSE 10 * int(SubSeq(w, 1, Len(w) - 1)) + (w[Len(w)] - Zero)

\* w.split(' ')
RECURSIVE split(_)
split(w) ==
    IF \A j \in 1..Len(w) : w[j] # Space THEN <<w>>
    ELSE LET at == CHOOSE j \in 1..Len(w) :
                       w[j] = Space /\ \A h \in 1..(j - 1) : w[h] # Space
         IN  <<SubSeq(w, 1, at - 1)>> \o split(SubSeq(w, at + 1, Len(w)))

\* the three integers of a key file
ReadKey(file) ==
    LET key == split(file) IN <<int(key[1]), int(key[2]), int(key[3])>>

(***************************************************************************)
(* keygen.                                                                 *)
(***************************************************************************)
KeygenRounds == 100
Generator    == 2
\* 2147483649 in the source: the top bit of the candidate and its lowest bit
HighOddMask  == Pow2(KeyBits - 1) + 1

InitKeygen ==
    /\ pc = "kg_draw" /\ exc = "none"
    /\ g = Generator
    /\ q = 0 /\ p = 0 /\ d = 0 /\ e2 = 0
    /\ pubkey = <<>> /\ prikey = <<>> /\ keys = <<>>
    /\ IdleMR /\ IdleModExp /\ IdleBlock /\ IdleFiles

\* q = secrets.randbits(..); q = q | mask; then the call miller_rabin(q, 100)
KeygenDrawQ ==
    /\ pc = "kg_draw"
    /\ \E r \in 0..(Pow2(KeyBits) - 1) : q' = BitOr(r, HighOddMask)
    /\ n' = q'
    /\ s' = KeygenRounds
    /\ caller' = "q"
    /\ pc' = "mr_call"
    /\ UNCHANGED <<exc, t, u, i, a, ret, p, g, d, e2, pubkey, prikey, keys,
                   modexpVars, blockVars, fileVars>>

\* KeygenCheckQ without the filter q % 12 == 5
KeygenCheckQNoFilter ==
    /\ pc = "mr_ret"
    /\ caller = "q"
    /\ IF ret = "True"
       THEN /\ p' = (2 * q) + 1
            /\ n' = p'
            /\ s' = KeygenRounds
            /\ caller' = "p"
            /\ pc' = "mr_call"
       ELSE /\ pc' = "kg_draw"
            /\ UNCHANGED <<p, n, s, caller>>
    /\ UNCHANGED <<exc, t, u, i, a, ret, q, g, d, e2, pubkey, prikey, keys,
                   modexpVars, blockVars, fileVars>>

\* miller_rabin(q, 100) returned:  if ... and q % 12 == 5: break, then
\* p = (2 * q) + 1 and the call miller_rabin(p, 100); otherwise draw again
KeygenCheckQ ==
    /\ pc = "mr_ret"
    /\ caller = "q"
    /\ IF ret = "True" /\ q % 12 = 5
       THEN /\ p' = (2 * q) + 1
            /\ n' = p'
            /\ s' = KeygenRounds
            /\ caller' = "p"
            /\ pc' = "mr_call"
       ELSE /\ pc' = "kg_draw"
            /\ UNCHANGED <<p, n, s, caller>>
    /\ UNCHANGED <<exc, t, u, i, a, ret, q, g, d, e2, pubkey, prikey, keys,
                   modexpVars, blockVars, fileVars>>

\* miller_rabin(p, 100) returned: break out of the search, or draw again
KeygenCheckP ==
    /\ pc = "mr_ret"
    /\ caller = "p"
    /\ pc' = IF ret = "True" THEN "kg_keys" ELSE "kg_draw"
    /\ UNCHANGED <<exc, mrVars, keyVars, modexpVars, blockVars, fileVars>>

\* KeygenFinish writing the secret to pubkey.txt and the public value to
\* prikey.txt
KeygenFinishSwapped ==
    /\ pc = "kg_keys"
    /\ \E dd \in 0..(p - 1) : d' = dd
    /\ e2' = fast_exponent_mod(g, d', p)
    /\ pubkey' = str(p) \o <<Space>> \o str(g) \o <<Space>> \o str(d')
    /\ prikey' = str(p) \o <<Space>> \o str(g) \o <<Space>> \o str(e2')
    /\ keys' = << <<p, g, e2'>>, <<p, g, d'>> >>
    /\ pc' = "kg_done"
    /\ UNCHANGED <<exc, q, p, g, mrVars, modexpVars, blockVars, fileVars>>

\* d = secrets.randbelow(p); e2; the two key files; the returned pair
KeygenFinish ==
    /\ pc = "kg_keys"
    /\ \E dd \in 0..(p - 1) : d' = dd
    /\ e2' = fast_exponent_mod(g, d', p)
    /\ pubkey' = str(p) \o <<Space>> \o str(g) \o <<Space>> \o str(e2')
    /\ prikey' = str(p) \o <<Space>> \o str(g) \o <<Space>> \o str(d')
    /\ keys' = << <<p, g, e2'>>, <<p, g, d'>> >>
    /\ pc' = "kg_done"
    /\ UNCHANGED <<exc, q, p, g, mrVars, modexpVars, blockVars, fileVars>>

NextKeygen ==
    \/ KeygenDrawQ \/ MRBegin \/ MRFactor \/ MRRound \/ MRReturnTrue
    \/ KeygenCheckQ \/ KeygenCheckP \/ KeygenFinish

SpecKeygen == InitKeygen /\ [][NextKeygen]_vars

SearchExited == pc \in {"kg_keys", "kg_done"}

\* C8: when keygen's search loop exits, q is odd with its top bit set
\* (2^(KeyBits-1) <= q < 2^KeyBits, KeyBits being 32 in the source),
\* q mod 12 = 5, p = 2q + 1 (so 2^KeyBits < p < 2^(KeyBits+1)), and both q
\* and p were accepted by miller_rabin with 100 rounds; a q that fails the
\* test or the mod-12 filter, or whose p fails the test, is discarded and a
\* fresh q is drawn.
SafePrimePost ==
    /\ [](SearchExited =>
            /\ q % 2 = 1
            /\ Pow2(KeyBits - 1) <= q /\ q < Pow2(KeyBits)
            /\ q % 12 = 5
            /\ p = (2 * q) + 1
            /\ Pow2(KeyBits) < p /\ p < Pow2(KeyBits + 1)
            /\ n = p /\ s = 100 /\ i = 100 /\ ret = "True")
    /\ [][(pc = "mr_ret" /\ caller = "q") =>
            IF n = q /\ s = 100 /\ i = 100 /\ ret = "True" /\ q % 12 = 5
            THEN pc' = "mr_call" /\ caller' = "p" /\ q' = q /\ n' = (2 * q) + 1
            ELSE pc' = "kg_draw"]_vars
    /\ [][(pc = "mr_ret" /\ caller = "p") =>
            IF n = p /\ s = 100 /\ i = 100 /\ ret = "True"
            THEN pc' = "kg_keys" /\ q' = q /\ p' = p
            ELSE pc' = "kg_draw"]_vars
    /\ [][(SearchExited' /\ ~SearchExited) =>
            (pc = "mr_ret" /\ caller = "p" /\ ret = "True")]_vars
    /\ [][(caller' = "p" /\ caller # "p") =>
            (pc = "mr_ret" /\ caller = "q" /\ ret = "True" /\ n = q)]_vars

SafePrimePostWitness ==
    /\ pc = "kg_keys" /\ q % 12 = 5 /\ p = (2 * q) + 1
    /\ IsPrime(q) /\ IsPrime(p) /\ ret = "True" /\ i = 100

\* C10: the pair returned by keygen shares p and g = 2, with 1 < g < p,
\* 0 <= d < p, 0 <= e2 < p and e2 = fast_exponent_mod(g, d, p) = 2^d mod p;
\* pubkey.txt and prikey.txt hold the same two triples.
KeyPairConsistent ==
    pc = "kg_done" =>
        /\ Len(keys) = 2
        /\ keys[1][1] = keys[2][1]
        /\ keys[1][2] = 2 /\ keys[2][2] = 2
        /\ 1 < keys[1][2] /\ keys[1][2] < keys[1][1]
        /\ 0 <= keys[2][3] /\ keys[2][3] < keys[2][1]
        /\ 0 <= keys[1][3] /\ keys[1][3] < keys[1][1]
        /\ keys[1][3] = fast_exponent_mod(keys[1][2], keys[2][3], keys[1][1])
        /\ keys[1][3] = RefPowMod(2, keys[2][3], keys[1][1])
        /\ ReadKey(pubkey) = keys[1]
        /\ ReadKey(prikey) = keys[2]

KeyPairConsistentWitness ==
    /\ pc = "kg_done" /\ keys[2][3] >= 10 /\ keys[1][3] >= 10
    /\ keys[1][3] # keys[2][3] /\ ReadKey(pubkey) = keys[1]

(***************************************************************************)
(* One block through the transforms of encrypt and decrypt.                *)
(***************************************************************************)
\* c1 and c2 of encrypt's loop body
EncryptBlock(pp, gg, ee2, kk, mm) ==
    << fast_exponent_mod(gg, kk, pp),
       MulMod(fast_exponent_mod(ee2, kk, pp), PyMod(mm, pp), pp) >>

\* DecryptBlock raising c1 to p - d
DecryptBlockExponentOff(pp, dd, cc1, cc2) ==
    MulMod(fast_exponent_mod(cc1, pp - dd, pp), PyMod(cc2, pp), pp)

\* m of decrypt's loop body
DecryptBlock(pp, dd, cc1, cc2) ==
    MulMod(fast_exponent_mod(cc1, pp - 1 - dd, pp), PyMod(cc2, pp), pp)

\* the primes the round trip is taken over: those up to MaxP with every
\* secret, and p = 101 with d = 7
InitBlock ==
    /\ pc = "blk_key" /\ exc = "none"
    /\ \/ p \in {x \in 2..MaxP : IsPrime(x)} /\ d \in 0..(p - 1)
       \/ p = 101 /\ d = 7
    /\ g = Generator
    /\ e2 = fast_exponent_mod(g, d, p)
    /\ q = 0 /\ pubkey = <<>> /\ prikey = <<>> /\ keys = <<>>
    /\ IdleBlock /\ IdleModExp /\ IdleMR /\ IdleFiles

BlockDraws(pp) == IF pp <= MaxP THEN 0..(pp - 1) ELSE {0, 3, 5, pp - 1}

BlockEncrypt ==
    /\ pc = "blk_key"
    /\ \E kk \in BlockDraws(p), mm \in BlockDraws(p) :
           /\ k' = kk
           /\ m' = mm
           /\ c1' = EncryptBlock(p, g, e2, kk, mm)[1]
           /\ c2' = EncryptBlock(p, g, e2, kk, mm)[2]
    /\ pc' = "blk_enc"
    /\ UNCHANGED <<exc, out, keyVars, modexpVars, mrVars, fileVars>>

BlockDecrypt ==
    /\ pc = "blk_enc"
    /\ out' = DecryptBlock(p, d, c1, c2)
    /\ pc' = "blk_dec"
    /\ UNCHANGED <<exc, k, m, c1, c2, keyVars, modexpVars, mrVars, fileVars>>

NextBlock == BlockEncrypt \/ BlockDecrypt

SpecBlock == InitBlock /\ [][NextBlock]_vars

\* C1 as stated: for every prime p, g = 2, d and k in [0, p-1] and block
\* m < p, decrypting the encryption of m yields m.
BlockRoundTrip ==
    pc = "blk_dec" => out = m

\* C1 amended: the same for every odd prime p, with c1 = g^k mod p
\* (p = 101, d = 7, k = 3, m = 5 gives c1 = 8 and recovers 5).
BlockRoundTripOddPrime ==
    /\ (pc = "blk_dec" /\ p > 2) => (out = m /\ c1 = RefPowMod(g, k, p))
    /\ (pc = "blk_dec" /\ p = 101 /\ k = 3 /\ m = 5) => (c1 = 8 /\ out = 5)

BlockRoundTripWitness ==
    pc = "blk_dec" /\ p = 101 /\ d = 7 /\ k = 3 /\ m = 5 /\ c1 = 8 /\ out = 5

(***************************************************************************)
(* encrypt and decrypt over files.                                         *)
(***************************************************************************)
BlockChars == 4     \* characters per block
CharBits   == 8     \* block << 8
PadChar    == 48    \* ord('0'), the character getblock puts for end of file

StreamP == Pow2(30) - 35
Alphabet == {49, 63}
StreamSecrets == {0, 7, StreamP - 1}
StreamEphemerals == {0, 3, StreamP - 1}

RECURSIVE Texts(_)
Texts(len) == IF len = 0 THEN {<<>>}
              ELSE Texts(len - 1) \cup
                   {Append(w, c) : w \in {v \in Texts(len - 1) : Len(v) = len - 1},
                                   c \in Alphabet}

\* getblock: <<block, eof, position of the file afterwards>>
RECURSIVE GetBlockLoop(_, _, _, _, _)
GetBlockLoop(file, pos, j, block, ef) ==
    IF j = BlockChars THEN <<block, ef, pos>>
    ELSE IF pos < Len(file)
         THEN GetBlockLoop(file, pos + 1, j + 1,
                           BitXor(block * Pow2(CharBits), file[pos + 1]), ef)
         ELSE GetBlockLoop(file, pos, j + 1,
                           BitXor(block * Pow2(CharBits), PadChar), TRUE)

getblock(file, pos) == GetBlockLoop(file, pos, 0, 0, FALSE)

\* readint: <<integer, eof, position of the file afterwards>>
RECURSIVE ReadIntLoop(_, _, _)
ReadIntLoop(file, pos, num) ==
    IF pos >= Len(file) THEN <<0, TRUE, pos>>
    ELSE IF file[pos + 1] = Space THEN <<int(num), FALSE, pos + 1>>
         ELSE ReadIntLoop(file, pos + 1, Append(num, file[pos + 1]))

readint(file, pos) == ReadIntLoop(file, pos, <<>>)

\* the four characters decrypt writes for a block
Unpack(mm) ==
    << BitAnd(mm \div Pow2(24), 255), BitAnd(mm \div Pow2(16), 255),
       BitAnd(mm \div Pow2(8), 255),  BitAnd(mm, 255) >>

\* the key files hold a pair as keygen writes it; the message is any text
\* over the alphabet
InitStream ==
    /\ pc = "enc_open" /\ exc = "none"
    /\ \E dd \in StreamSecrets :
           /\ pubkey = str(StreamP) \o <<Space>> \o str(Generator) \o <<Space>>
                       \o str(fast_exponent_mod(Generator, dd, StreamP))
           /\ prikey = str(StreamP) \o <<Space>> \o str(Generator) \o <<Space>>
                       \o str(dd)
    /\ text \in Texts(MaxLen)
    /\ tpos = 0 /\ eof = FALSE /\ ctext = <<>> /\ cpos = 0 /\ dtext = <<>>
    /\ q = 0 /\ p = 0 /\ g = 0 /\ d = 0 /\ e2 = 0 /\ keys = <<>>
    /\ IdleBlock /\ IdleModExp /\ IdleMR

\* encrypt up to its loop: the public key is read, the files are opened
EncryptOpen ==
    /\ pc = "enc_open"
    /\ p' = ReadKey(pubkey)[1]
    /\ g' = ReadKey(pubkey)[2]
    /\ e2' = ReadKey(pubkey)[3]
    /\ tpos' = 0
    /\ ctext' = <<>>
    /\ pc' = "enc_loop"
    /\ UNCHANGED <<exc, q, d, pubkey, prikey, keys, text, eof, cpos, dtext,
                   blockVars, modexpVars, mrVars>>

\* one iteration of encrypt's loop
EncryptStep ==
    /\ pc = "enc_loop"
    /\ m' = getblock(text, tpos)[1]
    /\ eof' = getblock(text, tpos)[2]
    /\ tpos' = getblock(text, tpos)[3]
    /\ \E kk \in StreamEphemerals : k' = kk
    /\ c1' = EncryptBlock(p, g, e2, k', m')[1]
    /\ c2' = EncryptBlock(p, g, e2, k', m')[2]
    /\ ctext' = ctext \o str(c1') \o <<Space>> \o str(c2') \o <<Space>>
    /\ pc' = IF eof' THEN "enc_done" ELSE "enc_loop"
    /\ UNCHANGED <<exc, out, keyVars, text, cpos, dtext, modexpVars, mrVars>>

\* decrypt up to its loop: the private key is read, the files are opened
DecryptOpen ==
    /\ pc = "enc_done"
    /\ p' = ReadKey(prikey)[1]
    /\ g' = ReadKey(prikey)[2]
    /\ d' = ReadKey(prikey)[3]
    /\ cpos' = 0
    /\ dtext' = <<>>
    /\ pc' = "dec_loop"
    /\ UNCHANGED <<exc, q, e2, pubkey, prikey, keys, text, tpos, eof, ctext,
                   blockVars, modexpVars, mrVars>>

\* one iteration of decrypt's loop
DecryptStep ==
    /\ pc = "dec_loop"
    /\ LET r1 == readint(ctext, cpos)
           r2 == readint(ctext, r1[3])
       IN  /\ c1' = r1[1]
           /\ c2' = r2[1]
           /\ eof' = r2[2]
           /\ cpos' = r2[3]
    /\ IF eof'
       THEN /\ pc' = "dec_done"
            /\ UNCHANGED <<m, dtext>>
       ELSE /\ m' = DecryptBlock(p, d, c1', c2')
            /\ dtext' = dtext \o Unpack(m')
            /\ pc' = "dec_loop"
    /\ UNCHANGED <<exc, k, out, keyVars, text, tpos, ctext, modexpVars, mrVars>>

NextStream == EncryptOpen \/ EncryptStep \/ DecryptOpen \/ DecryptStep

SpecStream == InitStream /\ [][NextStream]_vars

\* the (c1, c2) pairs in a cipher file: each integer is followed by a space
NumPairs(file) == Cardinality({j \in 1..Len(file) : file[j] = Space}) \div 2

\* big-endian value of the block starting after position pos, the bytes
\* past the end of the file counting as zero
RECURSIVE ZeroFill(_, _, _)
ZeroFill(file, pos, j) ==
    IF j = 0 THEN 0
    ELSE 256 * ZeroFill(file, pos, j - 1)
         + (IF pos + j <= Len(file) THEN file[pos + j] ELSE 0)

\* C2: decrypting the encryption of an L-character message gives the
\* message followed only by the padding of a short final block, one pair
\* per block; for L a multiple of 4 exactly L/4 pairs are written and the
\* output equals the message.
StreamRoundTrip ==
    pc = "dec_done" =>
        /\ Len(dtext) = BlockChars * ((Len(text) + BlockChars - 1) \div BlockChars)
        /\ SubSeq(dtext, 1, Len(text)) = text
        /\ NumPairs(ctext) = (Len(text) + BlockChars - 1) \div BlockChars
        /\ (Len(text) % BlockChars = 0) => dtext = text

\* C3: with j < 4 characters left getblock returns the big-endian integer
\* of those characters followed by 4 - j zero bytes and sets the
\* end-of-input flag; with 4 characters available it returns their
\* big-endian integer with the flag clear.
GetBlockZeroFill ==
    [][pc = "enc_loop" =>
          /\ m' = ZeroFill(text, tpos, BlockChars)
          /\ eof' = (Len(text) - tpos < BlockChars)]_vars
====
